---- MODULE Spec2Model ----
(***************************************************************************)
(* Model of lambda/main.py: the SNS -> Slack adapter for AWS Cost Anomaly  *)
(* Detection notifications.                                                *)
(*                                                                         *)
(* Python values are tagged records: None, str, int/float, dict, list.     *)
(* A str is a sequence of chunks; the chunks "T" and " " are the single    *)
(* characters the code looks for (date/time separator, whitespace), every  *)
(* other chunk holds neither.  A number is held in hundredths (150.5 is    *)
(* 15050); BigInt is an int beyond the range of a float (>= 2^1024), which *)
(* json.loads accepts and float formatting rejects.                        *)
(* An exception leaving a function is the value Raise(name).               *)
(***************************************************************************)
EXTENDS Integers, Sequences, FiniteSets, TLC

\* environ  SLACK_WEBHOOK_URL as os.environ.get gives it (None when unset)
\* event    the event handed to handler
\* pc       where the invocation is: "start", "loop", "post", "done", "raised"
\*          (for a function called on its own: "call", "returned")
\* idx      the record the loop is at (1-based), 0 before the loop
\* payload  the payload built for the record at idx and not yet POSTed
\* posts    the requests made so far, each with its record, payload and outcome
\* result   what handler returned, None before
\* exc      the exception that left handler, None if none
\* arg, ret argument and result of a function called on its own; under
\*          SpecRender arg is the anomaly the event was made from
VARIABLES environ, event, pc, idx, payload, posts, result, exc, arg, ret

vars == <<environ, event, pc, idx, payload, posts, result, exc, arg, ret>>

(* ------------------------------ values -------------------------------- *)

Null == [t |-> "null"]
Str(s) == [t |-> "str", s |-> s]
Num(n) == [t |-> "num", n |-> n]
BigInt == [t |-> "bigint"]
Obj(o) == [t |-> "obj", o |-> o]
List(l) == [t |-> "list", l |-> l]
Raise(e) == [raise |-> e]
IsRaise(x) == "raise" \in DOMAIN x

\* Python truth value of a value (`if x`, `x or y`, `not x`).
Truthy(v) ==
    CASE v.t = "null" -> FALSE
      [] v.t = "str" -> v.s # <<>>
      [] v.t = "num" -> v.n # 0
      [] v.t = "bigint" -> TRUE
      [] v.t = "obj" -> DOMAIN v.o # {}
      [] v.t = "list" -> v.l # <<>>

\* isinstance(x, (int, float))
IsNumber(v) == v.t \in {"num", "bigint"}

\* dict.get(k): None for a key that is not there.
dict_get(d, k) == IF k \in DOMAIN d.o THEN d.o[k] ELSE Null

\* dict.get(k, default)
dict_get_default(d, k, default) == IF k \in DOMAIN d.o THEN d.o[k] ELSE default

Digit(d) == <<"0", "1", "2", "3", "4", "5", "6", "7", "8", "9">>[d + 1]

RECURSIVE Decimal(_)
Decimal(n) == IF n < 10 THEN <<Digit(n)>> ELSE Decimal(n \div 10) \o <<Digit(n % 10)>>

RECURSIVE Grouped(_)
Grouped(n) ==
    IF n < 1000 THEN Decimal(n)
    ELSE Grouped(n \div 1000)
         \o <<",", Digit((n % 1000) \div 100), Digit((n \div 10) % 10), Digit(n % 10)>>

Abs(n) == IF n < 0 THEN -n ELSE n

\* format(x, ",.2f") of a number held in hundredths
format_comma_2f(c) ==
    (IF c < 0 THEN <<"-">> ELSE <<>>)
    \o Grouped(Abs(c) \div 100)
    \o <<".", Digit((Abs(c) \div 10) % 10), Digit(Abs(c) % 10)>>

\* str(x), as an f-string applies it: of a str itself, of a number its repr.
PyStr(v) ==
    CASE v.t = "str" -> v.s
      [] v.t = "num" ->
           (IF v.n < 0 THEN <<"-">> ELSE <<>>)
           \o Decimal(Abs(v.n) \div 100)
           \o (IF v.n % 100 = 0 THEN <<>>
               ELSE IF v.n % 10 = 0 THEN <<".", Digit((Abs(v.n) \div 10) % 10)>>
               ELSE <<".", Digit((Abs(v.n) \div 10) % 10), Digit(Abs(v.n) % 10)>>)

IsSpace(c) == c = " "

RECURSIVE LStrip(_)
LStrip(s) == IF s # <<>> /\ IsSpace(Head(s)) THEN LStrip(Tail(s)) ELSE s

RECURSIVE RStrip(_)
RStrip(s) ==
    IF s # <<>> /\ IsSpace(s[Len(s)]) THEN RStrip(SubSeq(s, 1, Len(s) - 1)) ELSE s

\* str.strip()
Strip(s) == RStrip(LStrip(s))

(* --------------------------- _get_severity_details --------------------- *)

HighThreshold == 100
MediumThreshold == 50

\* impact > dollars, for a number held in hundredths
GreaterThan(impact, dollars) == impact.t = "bigint" \/ impact.n > dollars * 100

\* _get_severity_details with the thresholds taken inclusively.
_get_severity_details_inclusive(impact) ==
    IF impact = Null
    THEN [color |-> "#78909C", emoji |-> ":information_source:", label |-> "UNKNOWN"]
    ELSE IF impact.t = "bigint" \/ impact.n >= HighThreshold * 100
    THEN [color |-> "#C62828", emoji |-> ":rotating_light:", label |-> "HIGH"]
    ELSE IF impact.n >= MediumThreshold * 100
    THEN [color |-> "#FFC107", emoji |-> ":warning:", label |-> "MEDIUM"]
    ELSE [color |-> "#2196F3", emoji |-> ":information_source:", label |-> "LOW"]

_get_severity_details(impact) ==
    IF impact = Null
    THEN [color |-> "#78909C", emoji |-> ":information_source:", label |-> "UNKNOWN"]
    ELSE IF GreaterThan(impact, HighThreshold)
    THEN [color |-> "#C62828", emoji |-> ":rotating_light:", label |-> "HIGH"]
    ELSE IF GreaterThan(impact, MediumThreshold)
    THEN [color |-> "#FFC107", emoji |-> ":warning:", label |-> "MEDIUM"]
    ELSE [color |-> "#2196F3", emoji |-> ":information_source:", label |-> "LOW"]

(* ------------------------------ _safe_get ------------------------------ *)

\* The loop of _safe_get from its k-th key on; cur.get on a value that is
\* no dict raises AttributeError, which the except clause turns into default.
RECURSIVE SafeGetLoop(_, _, _, _)
SafeGetLoop(cur, path, k, default) ==
    IF k > Len(path) THEN (IF cur # Null THEN cur ELSE default)
    ELSE IF cur = Null THEN default
    ELSE IF cur.t # "obj" THEN default
    ELSE SafeGetLoop(dict_get(cur, path[k]), path, k + 1, default)

_safe_get(d, path, default) == SafeGetLoop(d, path, 1, default)

(* ------------------------------- _get_any ------------------------------ *)

RECURSIVE GetAnyLoop(_, _, _, _)
GetAnyLoop(d, paths, i, default) ==
    IF i > Len(paths) THEN default
    ELSE LET val == _safe_get(d, paths[i], Null)
         IN IF val # Null THEN val ELSE GetAnyLoop(d, paths, i + 1, default)

\* _get_any that gives up after its first path.
_get_any_first_only(d, paths, default) ==
    IF paths = <<>> THEN default
    ELSE LET val == _safe_get(d, paths[1], Null)
         IN IF val # Null THEN val ELSE default

_get_any(d, paths, default) == GetAnyLoop(d, paths, 1, default)

(* ----------------------------- _format_date ---------------------------- *)

RECURSIVE BeforeT(_)
BeforeT(s) ==
    IF s = <<>> \/ Head(s) = "T" THEN <<>> ELSE <<Head(s)>> \o BeforeT(Tail(s))

_format_date(date_str) ==
    IF date_str.t # "str" THEN date_str
    ELSE IF \E i \in 1..Len(date_str.s) : date_str.s[i] = "T"
    THEN Str(BeforeT(date_str.s))
    ELSE date_str

(* --------------------------- _get_account_info ------------------------- *)

RootCausePaths == <<<<"RootCauses">>, <<"rootCauses">>>>

\* `x or y`
PyOr(x, y) == IF Truthy(x) THEN x ELSE y

\* Returns <<account_id, account_name>>.
_get_account_info(anomaly) ==
    LET root_causes == PyOr(_get_any(anomaly, RootCausePaths, List(<<>>)), List(<<>>))
    IN IF ~Truthy(root_causes) \/ root_causes.t # "list" THEN <<Null, Null>>
       ELSE LET rc == PyOr(root_causes.l[1], Obj(<<>>))
                account_id == _get_any(rc, <<<<"LinkedAccount">>, <<"linkedAccount">>>>, Null)
                acct_name ==
                    _get_any(rc, <<<<"LinkedAccountName">>, <<"linkedAccountName">>>>, Null)
            IN IF ~Truthy(account_id) THEN <<Null, Null>>
               ELSE <<Str(Strip(PyStr(account_id))), acct_name>>

(* ----------------------- _build_blocks_for_anomaly --------------------- *)

ImpactPaths == <<<<"Impact", "TotalImpact">>, <<"impact", "totalImpact">>>>
\* ImpactPctPaths without the lower-camel spelling.
ImpactPctPathsCapOnly == <<<<"Impact", "TotalImpactPercentage">>>>

ImpactPctPaths ==
    <<<<"Impact", "TotalImpactPercentage">>, <<"impact", "totalImpactPercentage">>>>
AnomalyIdPaths == <<<<"AnomalyId">>, <<"anomalyId">>>>
DefaultConsoleUrl ==
    Str(<<"https://console.aws.amazon.com/cost-management/home?#/anomaly-detection/anomalies">>)

Mrkdwn(text) == [type |-> "mrkdwn", text |-> text]

\* The "Root cause" field of the first root-cause entry, or no field.
RootCauseFields(anomaly) ==
    LET root_causes == PyOr(_get_any(anomaly, RootCausePaths, List(<<>>)), List(<<>>))
    IN IF ~(Truthy(root_causes) /\ root_causes.t = "list") THEN <<>>
       ELSE LET rc == PyOr(root_causes.l[1], Obj(<<>>))
                service == _get_any(rc, <<<<"Service">>, <<"service">>>>, Null)
                region == _get_any(rc, <<<<"Region">>, <<"region">>>>, Null)
                usage == _get_any(rc, <<<<"UsageType">>, <<"usageType">>>>, Null)
                rc_parts ==
                    (IF Truthy(service) THEN <<<<"Service: ">> \o PyStr(service)>> ELSE <<>>)
                    \o (IF Truthy(region) THEN <<<<"Region: ">> \o PyStr(region)>> ELSE <<>>)
                    \o (IF Truthy(usage) THEN <<<<"Usage: ">> \o PyStr(usage)>> ELSE <<>>)
                \* " | ".join(rc_parts)
                joined ==
                    IF Len(rc_parts) = 1 THEN rc_parts[1]
                    ELSE IF Len(rc_parts) = 2 THEN rc_parts[1] \o <<" | ">> \o rc_parts[2]
                    ELSE rc_parts[1] \o <<" | ">> \o rc_parts[2] \o <<" | ">> \o rc_parts[3]
            IN IF rc_parts # <<>> THEN <<Mrkdwn(<<"*Root cause*\n">> \o joined)>> ELSE <<>>

\* BuildFields with the window appended whether or not an endpoint is there,
\* and the identifier put before the root cause.
BuildFieldsReordered(anomaly, impact_text, impact_pct_text) ==
    LET start == _get_any(anomaly, <<<<"AnomalyStartDate">>, <<"anomalyStartDate">>>>, Null)
        end == _get_any(anomaly, <<<<"AnomalyEndDate">>, <<"anomalyEndDate">>>>, Null)
        start_fmt == _format_date(start)
        end_fmt == _format_date(end)
        anomaly_id == _get_any(anomaly, AnomalyIdPaths, Null)
    IN <<Mrkdwn(<<"*Window*\n">>
                \o (IF Truthy(start_fmt) THEN PyStr(start_fmt) ELSE <<"-">>)
                \o <<" \\u2192 ">>
                \o (IF Truthy(end_fmt) THEN PyStr(end_fmt) ELSE <<"-">>))>>
       \o <<Mrkdwn(<<"*Estimated impact*\n">> \o impact_text \o <<" USD">>)>>
       \o <<Mrkdwn(<<"*Impact %*\n">> \o impact_pct_text)>>
       \o (IF Truthy(anomaly_id)
           THEN <<Mrkdwn(<<"*Anomaly ID*\n">> \o PyStr(anomaly_id))>>
           ELSE <<>>)
       \o RootCauseFields(anomaly)

\* The fields list (lines 117-170); impact_text and impact_pct_text are given.
\* The chunk " \\u2192 " is the arrow between the two dates.
BuildFields(anomaly, impact_text, impact_pct_text) ==
    LET start == _get_any(anomaly, <<<<"AnomalyStartDate">>, <<"anomalyStartDate">>>>, Null)
        end == _get_any(anomaly, <<<<"AnomalyEndDate">>, <<"anomalyEndDate">>>>, Null)
        start_fmt == _format_date(start)
        end_fmt == _format_date(end)
        anomaly_id == _get_any(anomaly, AnomalyIdPaths, Null)
    IN (IF Truthy(start) \/ Truthy(end)
        THEN <<Mrkdwn(<<"*Window*\n">>
                      \o (IF Truthy(start_fmt) THEN PyStr(start_fmt) ELSE <<"-">>)
                      \o <<" \\u2192 ">>
                      \o (IF Truthy(end_fmt) THEN PyStr(end_fmt) ELSE <<"-">>))>>
        ELSE <<>>)
       \o <<Mrkdwn(<<"*Estimated impact*\n">> \o impact_text \o <<" USD">>)>>
       \o <<Mrkdwn(<<"*Impact %*\n">> \o impact_pct_text)>>
       \o RootCauseFields(anomaly)
       \o (IF Truthy(anomaly_id)
           THEN <<Mrkdwn(<<"*Anomaly ID*\n">> \o PyStr(anomaly_id))>>
           ELSE <<>>)

\* The optional detail line (lines 175-181): None, or the line's text.
DetailLine(anomaly) ==
    LET info == _get_account_info(anomaly)
        acct_id == info[1]
        acct_name == info[2]
    IN IF Truthy(acct_name) THEN Str(PyStr(acct_name) \o <<" (">> \o PyStr(acct_id) \o <<")">>)
       ELSE IF Truthy(acct_id) THEN Str(<<"Account: ">> \o PyStr(acct_id))
       ELSE Null

\* Returns [blocks |-> the list], or Raise: formatting an int too large for a
\* float with ",.2f" raises OverflowError (lines 110 and 115).
_build_blocks_for_anomaly(anomaly) ==
    LET impact_total == _get_any(anomaly, ImpactPaths, Null)
        sev_details ==
            _get_severity_details(IF IsNumber(impact_total) THEN impact_total ELSE Null)
        emoji == sev_details.emoji
        label == sev_details.label
        impact_pct == _get_any(anomaly, ImpactPctPaths, Null)
        impact_text ==
            IF IsNumber(impact_total) THEN <<"$">> \o format_comma_2f(impact_total.n)
            ELSE <<"n/a">>
        impact_pct_text ==
            IF IsNumber(impact_pct) THEN format_comma_2f(impact_pct.n) \o <<"%">>
            ELSE <<"n/a">>
        header_title == <<emoji, " AWS Cost Anomaly Detected: ", label, " ", emoji>>
        detail_line == DetailLine(anomaly)
        console_url ==
            _get_any(anomaly, <<<<"anomalyDetailsLink">>, <<"AnomalyDetailsLink">>>>,
                     DefaultConsoleUrl)
    IN IF impact_total = BigInt \/ impact_pct = BigInt THEN Raise("OverflowError")
       ELSE [blocks |-> <<
              [type |-> "header",
               text |-> [type |-> "plain_text", text |-> header_title, emoji |-> TRUE]],
              (IF Truthy(detail_line)
               THEN [type |-> "section", text |-> Mrkdwn(detail_line.s),
                     fields |-> BuildFields(anomaly, impact_text, impact_pct_text)]
               ELSE [type |-> "section",
                     fields |-> BuildFields(anomaly, impact_text, impact_pct_text)]),
              [type |-> "actions",
               elements |-> <<[type |-> "button",
                               text |-> [type |-> "plain_text",
                                         text |-> <<"Open in AWS Console">>],
                               url |-> console_url,
                               style |-> "primary"]>>],
              [type |-> "context",
               elements |-> <<Mrkdwn(<<"Sent by Cost Anomaly Detection \\u2192 SNS \\u2192 Lambda \\u2192 Slack">>)>>]
            >>]

(* ----------------------------- _build_payload -------------------------- *)

\* The three-backquote fence of Slack's preformatted text.
CodeFence == "[3 backquotes]"

\* _build_payload with the fallback text put under a grey attachment.
_build_payload_fallback_attached(anomaly, raw_text) ==
    IF Truthy(anomaly) /\ Truthy(_get_any(anomaly, AnomalyIdPaths, Null))
    THEN LET impact == _get_any(anomaly, ImpactPaths, Null)
             sev_details == _get_severity_details(IF IsNumber(impact) THEN impact ELSE Null)
             built == _build_blocks_for_anomaly(anomaly)
         IN IF IsRaise(built) THEN built
            ELSE [attachments |-> <<[color |-> sev_details.color, blocks |-> built.blocks]>>]
    ELSE [attachments |-> <<[color |-> "#78909C", blocks |-> <<
            [type |-> "section", text |-> [type |-> "mrkdwn", text |-> <<CodeFence, raw_text, CodeFence>>]]
          >>]>>]

\* anomaly is None or a dict; raw_text is the message string.
_build_payload(anomaly, raw_text) ==
    IF Truthy(anomaly) /\ Truthy(_get_any(anomaly, AnomalyIdPaths, Null))
    THEN LET impact == _get_any(anomaly, ImpactPaths, Null)
             sev_details == _get_severity_details(IF IsNumber(impact) THEN impact ELSE Null)
             built == _build_blocks_for_anomaly(anomaly)
         IN IF IsRaise(built) THEN built
            ELSE [attachments |-> <<[color |-> sev_details.color, blocks |-> built.blocks]>>]
    ELSE [blocks |-> <<
            [type |-> "header",
             text |-> [type |-> "plain_text",
                       text |-> <<":rotating_light: AWS Cost Anomaly Notification :rotating_light:">>,
                       emoji |-> TRUE]],
            [type |-> "section", text |-> [type |-> "mrkdwn", text |-> <<CodeFence, raw_text, CodeFence>>]]
          >>]

(* -------------------------------- handler ------------------------------ *)

\* A message string is held by what json.loads makes of it: [doc |-> v] is a
\* text that parses to v, [text |-> s] a text that json.loads rejects.
JsonText(v) == [doc |-> v]
PlainText(s) == [text |-> s]

json_loads(msg_str) ==
    IF "doc" \in DOMAIN msg_str THEN msg_str.doc ELSE Raise("JSONDecodeError")

HasAnomalyId(d) == Truthy(dict_get(d, "AnomalyId")) \/ Truthy(dict_get(d, "anomalyId"))

\* anomaly_payload of one record (lines 258-271): the dict to render, or None.
anomaly_payload(msg_str) ==
    LET parsed == json_loads(msg_str)
    IN IF IsRaise(parsed) THEN Null
       ELSE IF parsed.t = "obj" /\ HasAnomalyId(parsed) THEN parsed
       ELSE IF parsed.t = "obj"
       THEN LET detail == IF dict_get(parsed, "detail").t = "obj"
                          THEN dict_get_default(parsed, "detail", Obj(<<>>))
                          ELSE Obj(<<>>)
            IN IF HasAnomalyId(detail) THEN detail ELSE Null
       ELSE Null

\* msg_str of a record (lines 254-255)
msg_str_of(record) ==
    LET sns == PyOr(dict_get(record, "Sns"), Obj(<<>>))
    IN dict_get_default(sns, "Message", PlainText(<<>>))

\* records = event.get("Records") or []
records_of(ev) == PyOr(dict_get(ev, "Records"), List(<<>>)).l

\* What urlopen can do with one request: answer, answer with an error status
\* (HTTPError), fail below HTTP (URLError), or time out while the answer is read.
PostOutcomes == {"ok", "HTTPError", "URLError", "TimeoutError"}

\* HandlerStart with the URL tested against None only: an empty URL passes.
HandlerStartNoneOnly ==
    /\ pc = "start"
    /\ IF environ = Null
       THEN /\ pc' = "raised"
            /\ exc' = Raise("RuntimeError")
            /\ idx' = idx
       ELSE /\ pc' = "loop"
            /\ exc' = exc
            /\ idx' = 1
    /\ UNCHANGED <<environ, event, payload, posts, result, arg, ret>>

HandlerStart ==
    /\ pc = "start"
    /\ IF ~Truthy(environ)
       THEN /\ pc' = "raised"
            /\ exc' = Raise("RuntimeError")
            /\ idx' = idx
       ELSE /\ pc' = "loop"
            /\ exc' = exc
            /\ idx' = 1
    /\ UNCHANGED <<environ, event, payload, posts, result, arg, ret>>

\* One record of the loop up to the call of _post_to_slack (lines 253-273).
BuildRecord ==
    /\ pc = "loop"
    /\ idx <= Len(records_of(event))
    /\ LET msg_str == msg_str_of(records_of(event)[idx])
           built == _build_payload(anomaly_payload(msg_str), msg_str)
       IN IF IsRaise(built)
          THEN /\ pc' = "raised"
               /\ exc' = built
               /\ payload' = payload
          ELSE /\ pc' = "post"
               /\ exc' = exc
               /\ payload' = built
    /\ UNCHANGED <<environ, event, idx, posts, result, arg, ret>>

\* PostToSlack with the failure logged and not raised again.
PostToSlackSwallows ==
    /\ pc = "post"
    /\ \E outcome \in PostOutcomes :
          posts' = Append(posts, [record |-> idx, url |-> environ,
                                  payload |-> payload, outcome |-> outcome])
    /\ pc' = "loop"
    /\ idx' = idx + 1
    /\ payload' = Null
    /\ UNCHANGED <<environ, event, result, exc, arg, ret>>

\* _post_to_slack(webhook_url, payload): one request, no retry; every failure
\* is raised again and leaves the handler.
PostToSlack ==
    /\ pc = "post"
    /\ \E outcome \in PostOutcomes :
          /\ posts' = Append(posts, [record |-> idx, url |-> environ,
                                     payload |-> payload, outcome |-> outcome])
          /\ IF outcome = "ok"
             THEN /\ pc' = "loop"
                  /\ idx' = idx + 1
                  /\ exc' = exc
             ELSE /\ pc' = "raised"
                  /\ idx' = idx
                  /\ exc' = Raise(outcome)
    /\ payload' = Null
    /\ UNCHANGED <<environ, event, result, arg, ret>>

HandlerReturn ==
    /\ pc = "loop"
    /\ idx > Len(records_of(event))
    /\ result' = [status |-> "ok", delivered |-> Len(records_of(event))]
    /\ pc' = "done"
    /\ UNCHANGED <<environ, event, idx, payload, posts, exc, arg, ret>>

(* ------------------------------ the inputs ----------------------------- *)

MaxRecords == 2

WebhookUrls == {Null, Str(<<>>), Str(<<"https://hooks.slack.com/services/X">>)}

SampleAnomaly ==
    Obj([AnomalyId |-> Str(<<"a1">>),
         Impact |-> Obj([TotalImpact |-> Num(15050), TotalImpactPercentage |-> Num(1230)]),
         AnomalyStartDate |-> Str(<<"2025-11-01", "T", "00:00:00Z">>),
         AnomalyEndDate |-> Str(<<"2025-11-02", "T", "00:00:00Z">>),
         RootCauses |-> List(<<Obj([Service |-> Str(<<"EC2">>),
                                    LinkedAccount |-> Str(<<"123456789012">>),
                                    Region |-> Str(<<"us-east-1">>)])>>)])

CamelAnomaly ==
    Obj([anomalyId |-> Str(<<"b2">>),
         impact |-> Obj([totalImpact |-> Num(7500)]),
         anomalyDetailsLink |-> Str(<<"https://console.aws.amazon.com/b2">>)])

HandlerMessages ==
    { PlainText(<<"hello">>),
      PlainText(<<>>),
      JsonText(Num(12300)),
      JsonText(List(<<SampleAnomaly>>)),
      JsonText(Obj([subject |-> Str(<<"budget">>)])),
      JsonText(Obj([detail |-> Str(<<"a1">>)])),
      JsonText(SampleAnomaly),
      JsonText(Obj([detail |-> CamelAnomaly])),
      JsonText(Obj([AnomalyId |-> Str(<<>>), anomalyId |-> Str(<<"x">>)])),
      JsonText(Obj([AnomalyId |-> Str(<<"a3">>), Impact |-> Obj([TotalImpact |-> BigInt])])) }

HandlerRecords ==
    { Obj([Sns |-> Obj([Message |-> m])]) : m \in HandlerMessages }
    \cup { Obj(<<>>), Obj([Sns |-> Null]), Obj([Sns |-> Obj([Subject |-> Str(<<"s">>)])]) }

RECURSIVE SeqsUpTo(_, _)
SeqsUpTo(S, n) ==
    IF n = 0 THEN {<<>>}
    ELSE LET shorter == SeqsUpTo(S, n - 1)
         IN shorter \cup {Append(q, x) : q \in shorter, x \in S}

Events ==
    { Obj(<<>>), Obj([Records |-> Null]) }
    \cup { Obj([Records |-> List(q)]) : q \in SeqsUpTo(HandlerRecords, MaxRecords) }

Init ==
    /\ environ \in WebhookUrls
    /\ event \in Events
    /\ pc = "start"
    /\ idx = 0
    /\ payload = Null
    /\ posts = <<>>
    /\ result = Null
    /\ exc = Null
    /\ arg = Null
    /\ ret = Null

Next == HandlerStart \/ BuildRecord \/ PostToSlack \/ HandlerReturn

Spec == Init /\ [][Next]_vars

(* ------------------- anomaly payloads, field by field ------------------ *)

\* The two spellings of every key the renderer reads (lines 97-99, 111-113,
\* 119-120, 142, 147-150, 165, 193-195, 84, 90).
KeyOf ==
    [cap |-> [id |-> "AnomalyId", start |-> "AnomalyStartDate", end |-> "AnomalyEndDate",
              impact |-> "Impact", total |-> "TotalImpact", pct |-> "TotalImpactPercentage",
              rcs |-> "RootCauses", service |-> "Service", account |-> "LinkedAccount",
              name |-> "LinkedAccountName", region |-> "Region", usage |-> "UsageType",
              link |-> "AnomalyDetailsLink"],
     camel |-> [id |-> "anomalyId", start |-> "anomalyStartDate", end |-> "anomalyEndDate",
                impact |-> "impact", total |-> "totalImpact", pct |-> "totalImpactPercentage",
                rcs |-> "rootCauses", service |-> "service", account |-> "linkedAccount",
                name |-> "linkedAccountName", region |-> "region", usage |-> "usageType",
                link |-> "anomalyDetailsLink"]]

OtherConv(c) == IF c = "cap" THEN "camel" ELSE "cap"

\* A key with its value, or no key when the value is absent.
Field(k, v) == IF v = Null THEN <<>> ELSE (k :> v)

EntryOf(c, rc) ==
    Obj(Field(KeyOf[c].service, rc.service) @@ Field(KeyOf[c].account, rc.account)
        @@ Field(KeyOf[c].name, rc.name) @@ Field(KeyOf[c].region, rc.region)
        @@ Field(KeyOf[c].usage, rc.usage))

\* A second root cause, which the renderer never reads.
SecondCause ==
    [service |-> Str(<<"S3">>), account |-> Str(<<"999999999999">>),
     name |-> Str(<<"Backup">>), region |-> Str(<<"eu-west-1">>),
     usage |-> Str(<<"Requests-Tier1">>)]

RootCausesOf(c, shape, rc) ==
    CASE shape = "absent" -> Null
      [] shape = "empty" -> List(<<>>)
      [] shape = "dict" -> EntryOf(c, SecondCause)
      [] shape = "first_null" -> List(<<Null, EntryOf(c, SecondCause)>>)
      [] shape = "first_str" -> List(<<Str(<<"EC2">>), EntryOf(c, SecondCause)>>)
      [] shape = "one" -> List(<<EntryOf(c, rc)>>)
      [] shape = "two" -> List(<<EntryOf(c, rc), EntryOf(c, SecondCause)>>)

\* The payload that spells the fields of a in convention c; altId is a value
\* under the identifier key of the other convention.
ObjectOf(a, c) ==
    Obj(Field(KeyOf[c].id, a.id) @@ Field(KeyOf[OtherConv(c)].id, a.altId)
        @@ Field(KeyOf[c].start, a.start) @@ Field(KeyOf[c].end, a.end)
        @@ (IF a.impact = Null /\ a.pct = Null THEN <<>>
            ELSE KeyOf[c].impact :> Obj(Field(KeyOf[c].total, a.impact)
                                        @@ Field(KeyOf[c].pct, a.pct)))
        @@ Field(KeyOf[c].rcs, RootCausesOf(c, a.shape, a.rc))
        @@ Field(KeyOf[c].link, a.link))

BaseCause ==
    [service |-> Str(<<"EC2">>), account |-> Str(<<"123456789012">>), name |-> Null,
     region |-> Str(<<"us-east-1">>), usage |-> Null]

BaseAnomaly ==
    [conv |-> "cap", id |-> Str(<<"a1">>), altId |-> Null,
     start |-> Str(<<"2025-11-01", "T", "00:00:00Z">>),
     end |-> Str(<<"2025-11-02", "T", "00:00:00Z">>),
     impact |-> Num(15050), pct |-> Num(1230), shape |-> "one", rc |-> BaseCause,
     link |-> Null]

Dates ==
    {Null, Str(<<>>), Str(<<"2025-11-01", "T", "00:00:00Z">>), Str(<<"2025-11-02">>)}
Impacts == {Null, Str(<<"150">>), Num(5000), Num(-500), Num(123456789), BigInt}
Percentages == {Null, Num(1230), BigInt}
Shapes == {"absent", "empty", "dict", "first_null", "first_str", "one", "two"}
Accounts ==
    {Null, Str(<<>>), Str(<<" ", " ">>), Str(<<"123456789012">>),
     Str(<<" ", "123456789012", " ">>), Num(1200)}
Names == {Null, Str(<<>>), Str(<<"Prod">>)}
Identifiers == {Null, Str(<<>>), Str(<<"a1">>)}
Links == {Null, Str(<<"https://console.aws.amazon.com/a1">>)}

\* The payloads rendered: the base anomaly with one group of fields varied.
RenderInputs ==
    { [BaseAnomaly EXCEPT !.conv = c, !.start = s, !.end = e, !.impact = i, !.pct = p] :
        c \in {"cap", "camel"}, s \in Dates, e \in Dates, i \in Impacts, p \in Percentages }
    \cup
    { [BaseAnomaly EXCEPT !.conv = c, !.shape = sh,
                          !.rc = [BaseCause EXCEPT !.service = sv, !.region = rg, !.usage = us]] :
        c \in {"cap", "camel"}, sh \in Shapes, sv \in {Null, Str(<<>>), Str(<<"EC2">>)},
        rg \in {Null, Str(<<"us-east-1">>)}, us \in {Null, Str(<<"BoxUsage">>)} }
    \cup
    { [BaseAnomaly EXCEPT !.conv = c, !.shape = sh,
                          !.rc = [BaseCause EXCEPT !.account = ac, !.name = nm]] :
        c \in {"cap", "camel"}, sh \in {"absent", "first_null", "one", "two"},
        ac \in Accounts, nm \in Names }
    \cup
    { [BaseAnomaly EXCEPT !.conv = c, !.id = i, !.altId = o, !.link = l] :
        c \in {"cap", "camel"}, i \in Identifiers, o \in Identifiers, l \in Links }

RecordOf(doc) == Obj([Sns |-> Obj([Message |-> JsonText(doc)])])

\* One invocation per payload: the payload as it is, the payload under a
\* "detail" wrapper, and the payload in the other spelling.
RenderEvent(a) ==
    Obj([Records |-> List(<<RecordOf(ObjectOf(a, a.conv)),
                            RecordOf(Obj([detail |-> ObjectOf(a, a.conv)])),
                            RecordOf(ObjectOf(a, OtherConv(a.conv)))>>)])

InitRender ==
    /\ arg \in RenderInputs
    /\ event = RenderEvent(arg)
    /\ environ = Str(<<"https://hooks.slack.com/services/X">>)
    /\ pc = "start"
    /\ idx = 0
    /\ payload = Null
    /\ posts = <<>>
    /\ result = Null
    /\ exc = Null
    /\ ret = Null

SpecRender == InitRender /\ [][Next]_vars

(* ------------------------- claims on the handler ----------------------- *)

\* C1: a POST that fails (HTTPError, URLError, or any other error of the
\* request) ends the invocation with that error and without a status object;
\* it is the last POST of the invocation, so no later record is POSTed and the
\* failed record is not tried again: every record is POSTed at most once, in
\* record order.
C1_PostFailureAborts ==
    /\ \A k \in 1..Len(posts) :
          posts[k].outcome # "ok" =>
             /\ k = Len(posts)
             /\ pc = "raised"
             /\ exc = Raise(posts[k].outcome)
             /\ result = Null
    /\ \A j, k \in 1..Len(posts) : j < k => posts[j].record < posts[k].record

C1_Witness ==
    /\ Len(posts) = 1
    /\ posts[1].outcome = "HTTPError"
    /\ posts[1].record < Len(records_of(event))
    /\ pc = "raised"

\* C2: with the webhook URL unset or empty the invocation fails with the
\* configuration error before any record is touched: no payload is built, no
\* POST is made and no status object is returned, whatever the event holds.
C2_NoUrlNoDelivery ==
    ~Truthy(environ) =>
       /\ posts = <<>>
       /\ payload = Null
       /\ result = Null
       /\ idx = 0
       /\ pc \in {"start", "raised"}
       /\ pc = "raised" => exc = Raise("RuntimeError")

C2_Witness ==
    /\ environ = Str(<<>>)
    /\ Len(records_of(event)) = MaxRecords
    /\ pc = "raised"
    /\ posts = <<>>

\* C3: with the URL configured and every POST succeeding, the invocation makes
\* exactly one POST per record, in record order, the POST of a record done
\* before the next record is touched, never fails, and ends returning
\* {status: "ok", delivered: n} for its n records (0 and no POST for an absent
\* or empty Records).
C3_OnePostPerRecord ==
    (Truthy(environ) /\ \A k \in 1..Len(posts) : posts[k].outcome = "ok") =>
       /\ \A k \in 1..Len(posts) : posts[k].record = k
       /\ pc \in {"start", "loop", "post", "done"}
       /\ pc \in {"loop", "post"} => Len(posts) = idx - 1
       /\ pc = "done" =>
            /\ Len(posts) = Len(records_of(event))
            /\ result = [status |-> "ok", delivered |-> Len(records_of(event))]

\* A message that json.loads rejects, or whose document has no identifier
\* under either spelling, neither flat nor under "detail".
NoIdentifier(d) ==
    d.t = "obj" => \A k \in {"AnomalyId", "anomalyId"} : k \notin DOMAIN d.o \/ d.o[k] = Null

Unrecognized(m) ==
    \/ "text" \in DOMAIN m
    \/ /\ "doc" \in DOMAIN m
       /\ NoIdentifier(m.doc)
       /\ (m.doc.t = "obj" /\ "detail" \in DOMAIN m.doc.o) => NoIdentifier(m.doc.o["detail"])

IsFallback(p, m) ==
    /\ DOMAIN p = {"blocks"}
    /\ Len(p.blocks) = 2
    /\ p.blocks[1].type = "header"
    /\ p.blocks[1].text.text =
          <<":rotating_light: AWS Cost Anomaly Notification :rotating_light:">>
    /\ DOMAIN p.blocks[2] = {"type", "text"}
    /\ p.blocks[2].type = "section"
    /\ p.blocks[2].text.text = <<CodeFence, m, CodeFence>>

\* C5: a record whose message is no valid JSON, or parses but has no identifier
\* (either spelling, flat or under "detail"), is rendered as the fallback: a
\* blocks list of the fixed header and one section holding the raw message
\* between code fences, no attachment. That payload is POSTed; only a failure
\* of that POST can end the invocation at this record, and after the POST the
\* loop goes on to the next record.
C5_FallbackRendering ==
    \A k \in 1..Len(records_of(event)) :
       LET m == msg_str_of(records_of(event)[k])
       IN Unrecognized(m) =>
            /\ \A j \in 1..Len(posts) : posts[j].record = k => IsFallback(posts[j].payload, m)
            /\ (pc = "post" /\ idx = k) => IsFallback(payload, m)
            /\ (pc = "raised" /\ idx = k) =>
                  /\ posts # <<>>
                  /\ posts[Len(posts)].record = k
                  /\ exc = Raise(posts[Len(posts)].outcome)
            /\ idx > k => \E j \in 1..Len(posts) : posts[j].record = k /\ posts[j].outcome = "ok"

C5_Witness ==
    /\ Len(posts) = 2
    /\ msg_str_of(records_of(event)[1]) = JsonText(Obj([subject |-> Str(<<"budget">>)]))
    /\ msg_str_of(records_of(event)[2]) = PlainText(<<"hello">>)
    /\ posts[1].outcome = "ok"
    /\ posts[2].outcome = "ok"
    /\ pc = "done"

(* ------------------------- claims on the renderer ---------------------- *)

\* The payload POSTed for record k of the event, when it is the anomaly
\* message (one coloured attachment).
IsAnomalyPost(k) == Len(posts) >= k /\ DOMAIN posts[k].payload = {"attachments"}
SectionOf(k) == posts[k].payload.attachments[1].blocks[2]

\* C6: a payload with an identifier (under either spelling) renders the same
\* under a "detail" wrapper as it does flat: the POST of record 2 carries the
\* message of the POST of record 1.
C6_DetailResolvesAsFlat ==
    (Len(posts) >= 2 /\ (Truthy(arg.id) \/ Truthy(arg.altId))) =>
       posts[2].payload = posts[1].payload

\* C7: an anomaly spelled with capitalized keys and the same anomaly spelled
\* with lower-camel keys (identifier, dates, impact amount and percentage,
\* root-cause service, linked account and its name, region, usage type,
\* details link) are rendered as the same message: the POST of record 3
\* carries the message of the POST of record 1.
C7_ConventionAgnostic ==
    (Len(posts) = 3 /\ Truthy(arg.id) /\ arg.altId = Null) =>
       /\ posts[3].payload = posts[1].payload
       /\ IsAnomalyPost(1)

C7_Witness ==
    /\ Len(posts) = 3
    /\ arg.conv = "cap"
    /\ arg.id = Str(<<"a1">>)
    /\ arg.altId = Null
    /\ arg.pct = Num(1230)
    /\ arg.shape = "two"
    /\ arg.rc.name = Str(<<"Prod">>)
    /\ arg.rc.account = Str(<<" ", "123456789012", " ">>)

\* C8: the field grid of an anomaly message holds, in this order, the time
\* window (only if an endpoint is there, "-" standing for a missing endpoint),
\* the estimated impact and the impact percentage (always), the root cause
\* (only if the first root-cause entry has a service, a region or a usage
\* type; built from the first entry alone) and the identifier (only if there).
C8_FieldGrid ==
    IsAnomalyPost(1) =>
       LET fields == SectionOf(1).fields
           labels == [i \in 1..Len(fields) |-> fields[i].text[1]]
           hasWindow == Truthy(arg.start) \/ Truthy(arg.end)
           hasFirst == arg.shape \in {"one", "two"}
           parts ==
               (IF Truthy(arg.rc.service) THEN <<<<"Service: ">> \o arg.rc.service.s>> ELSE <<>>)
               \o (IF Truthy(arg.rc.region) THEN <<<<"Region: ">> \o arg.rc.region.s>> ELSE <<>>)
               \o (IF Truthy(arg.rc.usage) THEN <<<<"Usage: ">> \o arg.rc.usage.s>> ELSE <<>>)
           hasCause == hasFirst /\ parts # <<>>
           hasId == Truthy(arg.id) \/ Truthy(arg.altId)
           causeAt == (IF hasWindow THEN 1 ELSE 0) + 3
       IN /\ labels = (IF hasWindow THEN <<"*Window*\n">> ELSE <<>>)
                      \o <<"*Estimated impact*\n", "*Impact %*\n">>
                      \o (IF hasCause THEN <<"*Root cause*\n">> ELSE <<>>)
                      \o (IF hasId THEN <<"*Anomaly ID*\n">> ELSE <<>>)
          /\ (hasWindow /\ ~Truthy(arg.start)) => fields[1].text[2] = "-"
          /\ (hasWindow /\ ~Truthy(arg.end)) => fields[1].text[Len(fields[1].text)] = "-"
          /\ hasCause =>
               /\ SubSeq(fields[causeAt].text, 2, 1 + Len(parts[1])) = parts[1]
               /\ \A i \in 1..Len(fields[causeAt].text) :
                     fields[causeAt].text[i] \notin
                        {SecondCause.service.s[1], SecondCause.region.s[1], SecondCause.usage.s[1]}
               /\ Len(fields[causeAt].text) =
                     1 + Len(parts[1])
                     + (IF Len(parts) >= 2 THEN 1 + Len(parts[2]) ELSE 0)
                     + (IF Len(parts) >= 3 THEN 1 + Len(parts[3]) ELSE 0)

C8_Witness ==
    /\ IsAnomalyPost(1)
    /\ arg.start = Null
    /\ Truthy(arg.end)
    /\ arg.impact = Null
    /\ Len(SectionOf(1).fields) = 5

\* C9: the detail line of an anomaly message comes from the first root-cause
\* entry: "name (id)" when a name was resolved, "Account: id" when only an id
\* was, the id trimmed of surrounding whitespace, and no line otherwise; a name
\* is never shown without an id.
C9_DetailLine ==
    IsAnomalyPost(1) =>
       LET hasFirst == arg.shape \in {"one", "two"}
           id == IF hasFirst /\ Truthy(arg.rc.account)
                 THEN Strip(PyStr(arg.rc.account)) ELSE <<>>
           name == IF hasFirst /\ Truthy(arg.rc.name) THEN arg.rc.name.s ELSE <<>>
       IN IF id = <<>> THEN "text" \notin DOMAIN SectionOf(1)
          ELSE /\ "text" \in DOMAIN SectionOf(1)
               /\ SectionOf(1).text.text =
                     (IF name # <<>> THEN name \o <<" (">> \o id \o <<")">>
                      ELSE <<"Account: ">> \o id)

(* ------------------------- the severity classifier --------------------- *)

\* The amounts classified, in hundredths: -MaxDebit .. MaxImpact.
MaxImpact == 10100
MaxDebit == 200

SeverityInputs ==
    {Null, Str(<<"150">>), BigInt} \cup {Num(c) : c \in (0 - MaxDebit)..MaxImpact}

\* The severity of an impact amount as both callers compute it (lines 103-105
\* and 224): what is no number is classified as absent.
Classify ==
    /\ pc = "call"
    /\ ret' = _get_severity_details(IF IsNumber(arg) THEN arg ELSE Null)
    /\ pc' = "returned"
    /\ UNCHANGED <<environ, event, idx, payload, posts, result, exc, arg>>

InitSeverity ==
    /\ arg \in SeverityInputs
    /\ ret = Null
    /\ pc = "call"
    /\ environ = Null
    /\ event = Obj(<<>>)
    /\ idx = 0
    /\ payload = Null
    /\ posts = <<>>
    /\ result = Null
    /\ exc = Null

NextSeverity == Classify

SpecSeverity == InitSeverity /\ [][NextSeverity]_vars

MaxPaths == 2

\* No key at all (a key holding null is Null).
Absent == [t |-> "absent"]
Put(k, v) == IF v = Absent THEN <<>> ELSE (k :> v)

\* The dicts looked into: under each of the keys "a" and "b" nothing, null, an
\* empty string, a string, or a dict of the same kind one level down.
InnerValues(k) == {Absent, Null, Str(<<k, "a">>)}
InnerDicts(k) == {Obj(Put("a", x) @@ Put("b", y)) : x \in InnerValues(k), y \in {Absent, Null, Str(<<k, "b">>)}}
OuterValues(k) == {Absent, Null, Str(<<>>), Str(<<k>>)} \cup InnerDicts(k)
LookupDicts ==
    {Obj(Put("a", x) @@ Put("b", y)) : x \in OuterValues("a"), y \in OuterValues("b")}
    \cup {Null, Str(<<"a">>), List(<<Obj([a |-> Str(<<"a">>)])>>)}

LookupPaths == {<<"a">>, <<"b">>, <<"a", "a">>, <<"a", "b">>, <<"b", "a">>}

LookupInputs ==
    [d : LookupDicts, paths : SeqsUpTo(LookupPaths, MaxPaths),
     default : {Null, Str(<<"default">>)}]

Lookup ==
    /\ pc = "call"
    /\ ret' = _get_any(arg.d, arg.paths, arg.default)
    /\ pc' = "returned"
    /\ UNCHANGED <<environ, event, idx, payload, posts, result, exc, arg>>

InitLookup ==
    /\ arg \in LookupInputs
    /\ ret = Absent
    /\ pc = "call"
    /\ environ = Null
    /\ event = Obj(<<>>)
    /\ idx = 0
    /\ payload = Null
    /\ posts = <<>>
    /\ result = Null
    /\ exc = Null

NextLookup == Lookup

SpecLookup == InitLookup /\ [][NextLookup]_vars

\* What a key leads to: nothing (None) from what is no dict, from a dict
\* without the key, and from a key holding null.
At(x, k) == IF x.t = "obj" /\ k \in DOMAIN x.o THEN x.o[k] ELSE Null

\* The value at the end of a path of one or two keys.
Traversal(d, p) == IF Len(p) = 1 THEN At(d, p[1]) ELSE At(At(d, p[1]), p[2])

\* C10: the lookup returns the value of the first candidate path whose whole
\* traversal ends in a value that is not null; a path that meets null, a
\* missing key or a value that is no dict on its way is passed over without
\* an error; with no such path the lookup returns the caller's default.
C10_FirstMatchWins ==
    pc = "returned" =>
       LET hits == {i \in 1..Len(arg.paths) : Traversal(arg.d, arg.paths[i]) # Null}
       IN /\ hits = {} => ret = arg.default
          /\ hits # {} =>
               \E i \in hits : /\ \A j \in hits : i <= j
                               /\ ret = Traversal(arg.d, arg.paths[i])
          /\ ~IsRaise(ret)

C10_Witness ==
    /\ pc = "returned"
    /\ Len(arg.paths) = 2
    /\ arg.paths[1] = <<"a", "b">>
    /\ At(arg.d, "a") = Str(<<"a">>)
    /\ arg.paths[2] = <<"b", "a">>
    /\ ret = Str(<<"b", "a">>)
    /\ arg.default = Str(<<"default">>)

====
